---------------------------- MODULE Spec2Model ----------------------------
(***************************************************************************)
(* A model of utils.py: downscale_all, inverse_of_map,                     *)
(* mean_map_of_and_rev_ba, create_mean_map_ab_ba and                       *)
(* calc_variational_inference_map.                                         *)
(*                                                                         *)
(* An array is a record [h, w, v]: its shape and its entries, indexed from *)
(* 0 as numpy does, v[<<y, x>>].  A flow entry is a pair of channels       *)
(* <<dx, dy>>; a channel value is an exact rational <<n, d>> in lowest     *)
(* terms with d > 0, or NaN, written <<0, 0>>.  Floating-point rounding is *)
(* not modelled: arithmetic is exact.                                      *)
(***************************************************************************)
EXTENDS Integers, Sequences, FiniteSets, TLC

VARIABLES img, mask, img_ba, mask_ba, op, arg, ret

vars == <<img, mask, img_ba, mask_ba, op, arg, ret>>

(***************************************************************************)
(* Bounds of the model.                                                    *)
(***************************************************************************)
MaxDim == 3
MaxValid == 3
MaxFlow == 1
MaxScale == 2
MaxExit == 2

(***************************************************************************)
(* Channel values: numpy floats as exact rationals, with NaN.              *)
(***************************************************************************)
NaN == <<0, 0>>

IsNaN(r) == r[2] = 0

Abs(n) == IF n < 0 THEN -n ELSE n

RECURSIVE GCD(_, _)
GCD(a, b) == IF b = 0 THEN a ELSE GCD(b, a % b)

\* n/d in lowest terms, for d > 0.
Norm(n, d) == LET g == GCD(Abs(n), d) IN <<n \div g, d \div g>>

Int2R(i) == <<i, 1>>

Zero == Int2R(0)

RAdd(a, b) ==
    IF IsNaN(a) \/ IsNaN(b) THEN NaN
    ELSE Norm(a[1] * b[2] + b[1] * a[2], a[2] * b[2])

RNeg(a) == IF IsNaN(a) THEN NaN ELSE <<-a[1], a[2]>>

RSub(a, b) == RAdd(a, RNeg(b))

\* a / k for an integer k # 0.
RDivInt(a, k) ==
    IF IsNaN(a) THEN NaN
    ELSE IF k > 0 THEN Norm(a[1], a[2] * k)
    ELSE Norm(-a[1], a[2] * (-k))

\* The rounding without the half: int(np.floor(r)).
FloorOnly(r) == r[1] \div r[2]

\* int(np.floor(r + 0.5)) for a finite r.
FloorHalf(r) == (2 * r[1] + r[2]) \div (2 * r[2])

(***************************************************************************)
(* Arrays.                                                                 *)
(***************************************************************************)
Pixels(h, w) == (0 .. (h - 1)) \X (0 .. (w - 1))

\* np.zeros_like(of_map, dtype=np.float32)
ZerosField(h, w) == [h |-> h, w |-> w, v |-> [p \in Pixels(h, w) |-> <<Zero, Zero>>]]

\* np.zeros((h, w))
ZerosGrid(h, w) == [h |-> h, w |-> w, v |-> [p \in Pixels(h, w) |-> 0]]

EmptyField == ZerosField(0, 0)

EmptyGrid == ZerosGrid(0, 0)

SameShape(a, b) == a.h = b.h /\ a.w = b.w

\* The pixels in row-major order: for y in range(h): for x in range(w).
RowMajor(h, w) == [k \in 1 .. (h * w) |-> <<(k - 1) \div w, (k - 1) % w>>]

(***************************************************************************)
(* What a call gives its caller: arrays, an exception, or None.            *)
(***************************************************************************)
Returned(f, m) == [kind |-> "ok", img |-> f, mask |-> m]

Raised == [kind |-> "error", img |-> EmptyField, mask |-> EmptyGrid]

ReturnedNone == [kind |-> "none", img |-> EmptyField, mask |-> EmptyGrid]

NoCall == [kind |-> "nocall", img |-> EmptyField, mask |-> EmptyGrid]

(***************************************************************************)
(* inverse_of_map                                                          *)
(***************************************************************************)
\* rev_x = (x * scale + of_map[y, x, 0]) / scale, rounded by floor(. + 0.5).
RevCoord(i, scale, f) == FloorHalf(RDivInt(RAdd(Int2R(i * scale), f), scale))

\* The bounds with row 0 and column 0 let in: 0 <= rev_x and 0 <= rev_y.
AcceptedFromZero(rx, ry, h, w) == 0 <= rx /\ rx < w /\ 0 <= ry /\ ry < h

\* 0 < rev_x < rev_of_map.shape[1] and 0 < rev_y < rev_of_map.shape[0]
Accepted(rx, ry, h, w) == 0 < rx /\ rx < w /\ 0 < ry /\ ry < h

\* The update with the sign of the running value lost: rev += (rev - f) / count.
RunningUpdateSign(rev, f, count) ==
    <<RAdd(rev[1], RDivInt(RSub(rev[1], f[1]), count)),
      RAdd(rev[2], RDivInt(RSub(rev[2], f[2]), count))>>

\* rev += (-rev - f) / count, per channel, count already incremented.
RunningUpdate(rev, f, count) ==
    <<RAdd(rev[1], RDivInt(RSub(RNeg(rev[1]), f[1]), count)),
      RAdd(rev[2], RDivInt(RSub(RNeg(rev[2]), f[2]), count))>>

\* The destination of source pixel p, as <<rev_y, rev_x>>.
Destination(of_map, scale, p) ==
    <<RevCoord(p[1], scale, of_map.v[p][2]), RevCoord(p[2], scale, of_map.v[p][1])>>

\* Whether the body of the loop raises at pixel p: the mask has no entry
\* [y, x], or int() is given an infinity or a NaN (scale 0, or a NaN flow).
StepRaises(of_map, of_mask, scale, p) ==
    \/ p \notin Pixels(of_mask.h, of_mask.w)
    \/ /\ of_mask.v[p] = 1
       /\ (scale = 0 \/ IsNaN(of_map.v[p][1]) \/ IsNaN(of_map.v[p][2]))

\* One iteration of the loop body at pixel p.
InvStep(st, of_map, of_mask, scale, p) ==
    IF st.err THEN st
    ELSE IF StepRaises(of_map, of_mask, scale, p) THEN [st EXCEPT !.err = TRUE]
    ELSE IF of_mask.v[p] # 1 THEN st
    ELSE LET d == Destination(of_map, scale, p)
         IN  IF Accepted(d[2], d[1], of_map.h, of_map.w)
             THEN LET c == st.count[d] + 1
                  IN  [st EXCEPT !.count[d] = c,
                                 !.rev[d] = RunningUpdate(st.rev[d], of_map.v[p], c)]
             ELSE st

RECURSIVE InvScan(_, _, _, _, _, _)
InvScan(st, of_map, of_mask, scale, order, k) ==
    IF k > Len(order) THEN st
    ELSE InvScan(InvStep(st, of_map, of_mask, scale, order[k]),
                 of_map, of_mask, scale, order, k + 1)

\* The mask left as the boolean array: np.asarray(map_count > 0).
CountMaskBool(h, w, count) ==
    [h |-> h, w |-> w,
     v |-> [p \in Pixels(h, w) |-> IF count[p] > 0 THEN 1 ELSE 0]]

\* (np.asarray(map_count > 0) * 2) - 1
CountMask(h, w, count) ==
    [h |-> h, w |-> w,
     v |-> [p \in Pixels(h, w) |-> (IF count[p] > 0 THEN 1 ELSE 0) * 2 - 1]]

InvInit(h, w) ==
    [err |-> FALSE,
     count |-> [p \in Pixels(h, w) |-> 0],
     rev |-> [p \in Pixels(h, w) |-> <<Zero, Zero>>]]

\* The scan with the sources visited in a given order.
InverseInOrder(of_map, of_mask, scale, order) ==
    LET h == of_map.h
        w == of_map.w
        st == InvScan(InvInit(h, w), of_map, of_mask, scale, order, 1)
    IN  IF st.err THEN Raised
        ELSE Returned([h |-> h, w |-> w, v |-> st.rev], CountMask(h, w, st.count))

InverseOfMap(of_map, of_mask, scale) ==
    InverseInOrder(of_map, of_mask, scale, RowMajor(of_map.h, of_map.w))

(***************************************************************************)
(* NaN-aware means (np.nanmean).                                           *)
(***************************************************************************)
RECURSIVE NanSum(_, _)
NanSum(vals, k) ==
    IF k = 0 THEN Zero
    ELSE IF IsNaN(vals[k]) THEN NanSum(vals, k - 1)
    ELSE RAdd(NanSum(vals, k - 1), vals[k])

RECURSIVE NanCount(_, _)
NanCount(vals, k) ==
    IF k = 0 THEN 0
    ELSE NanCount(vals, k - 1) + (IF IsNaN(vals[k]) THEN 0 ELSE 1)

\* np.mean of the entries with the NaNs taken as 0: the sum over all of them.
MeanByLen(vals) ==
    LET c == NanCount(vals, Len(vals))
    IN  IF c = 0 THEN NaN ELSE RDivInt(NanSum(vals, Len(vals)), Len(vals))

\* The mean of the entries that are not NaN; NaN when there is none.
NanMean(vals) ==
    LET c == NanCount(vals, Len(vals))
    IN  IF c = 0 THEN NaN ELSE RDivInt(NanSum(vals, Len(vals)), c)

\* a[np.isnan(a)] = 0
NaNToZero(r) == IF IsNaN(r) THEN Zero ELSE r

\* The masking left out.
MaskNothing(f, m) == f

\* of_map_nan[np.stack((of_mask, of_mask), axis=2) == -1] = np.nan
MaskToNaN(f, m) ==
    [f EXCEPT !.v = [p \in Pixels(f.h, f.w) |->
                       IF m.v[p] = -1 THEN <<NaN, NaN>> ELSE f.v[p]]]

(***************************************************************************)
(* downscale_all (edges = None)                                            *)
(***************************************************************************)
\* The caller's img once lines 16-17 have run: the boolean index raises on a
\* mask of another shape, before anything is written.
DownscaleWrites(im, m) == IF SameShape(im, m) THEN MaskToNaN(im, m) ELSE im

\* img.shape[0] - (img.shape[0] % downscale), for downscale > 0.
Cropped(n, downscale) == n - (n % downscale)

\* The entries of channel c in block (by, bx) of view_as_blocks.
BlockVals(im, downscale, by, bx, c) ==
    [k \in 1 .. (downscale * downscale) |->
        im.v[<<by * downscale + ((k - 1) \div downscale),
               bx * downscale + ((k - 1) % downscale)>>][c]]

\* np.nanmean(blocks, axis=(-2, -3, -4))
BlockMeans(im, downscale) ==
    LET h == Cropped(im.h, downscale) \div downscale
        w == Cropped(im.w, downscale) \div downscale
    IN  [h |-> h, w |-> w,
         v |-> [q \in Pixels(h, w) |->
                  <<NanMean(BlockVals(im, downscale, q[1], q[2], 1)),
                    NanMean(BlockVals(im, downscale, q[1], q[2], 2))>>]]

\* mask = np.ones_like(img); mask[np.isnan(img)] = -1; mask = mask[:, :, 0]
NaNMask(means) ==
    [h |-> means.h, w |-> means.w,
     v |-> [q \in Pixels(means.h, means.w) |->
              IF IsNaN(means.v[q][1]) THEN -1 ELSE 1]]

\* img[np.isnan(img)] = 0
ZeroedField(means) ==
    [means EXCEPT !.v = [q \in Pixels(means.h, means.w) |->
                           <<NaNToZero(means.v[q][1]), NaNToZero(means.v[q][2])>>]]

\* What downscale_all returns: it raises on a mask of another shape (line
\* 16), on downscale = 0 (line 19) and on downscale < 0 (view_as_blocks).
DownscaleAll(im, m, downscale) ==
    IF ~SameShape(im, m) \/ downscale <= 0 THEN Raised
    ELSE LET means == BlockMeans(MaskToNaN(im, m), downscale)
         IN  Returned(ZeroedField(means), NaNMask(means))

(***************************************************************************)
(* mean_map_of_and_rev_ba                                                  *)
(***************************************************************************)
\* np.nanmean(np.stack((of_map_nan, rev_of_map_ba_nan), axis=3), axis=3)
PairMeans(a, b) ==
    [h |-> a.h, w |-> a.w,
     v |-> [p \in Pixels(a.h, a.w) |->
              <<NanMean(<<a.v[p][1], b.v[p][1]>>),
                NanMean(<<a.v[p][2], b.v[p][2]>>)>>]]

\* The sentinel without its sign flipped: (np.isnan(mean_map) * 2 - 1).
MeanMaskFlipped(means) ==
    [h |-> means.h, w |-> means.w,
     v |-> [p \in Pixels(means.h, means.w) |->
              (IF IsNaN(means.v[p][1]) THEN 1 ELSE 0) * 2 - 1]]

\* mean_map_mask = -(np.isnan(mean_map) * 2 - 1)[:, :, 0]
MeanMask(means) ==
    [h |-> means.h, w |-> means.w,
     v |-> [p \in Pixels(means.h, means.w) |->
              -((IF IsNaN(means.v[p][1]) THEN 1 ELSE 0) * 2 - 1)]]

\* It raises when a mask has another shape than its field (the boolean
\* index) or the two fields differ in shape (np.stack).
MeanMapOfAndRevBa(of_map, of_mask, rev_of_map_ba, rev_of_mask_ba) ==
    IF \/ ~SameShape(of_map, of_mask)
       \/ ~SameShape(rev_of_map_ba, rev_of_mask_ba)
       \/ ~SameShape(of_map, rev_of_map_ba)
    THEN Raised
    ELSE LET means == PairMeans(MaskToNaN(of_map, of_mask),
                                MaskToNaN(rev_of_map_ba, rev_of_mask_ba))
         IN  Returned(ZeroedField(means), MeanMask(means))

(***************************************************************************)
(* create_mean_map_ab_ba                                                   *)
(***************************************************************************)
CreateMeanMapAbBa(im, m, im_ba, m_ba, scale) ==
    LET rev == InverseOfMap(im_ba, m_ba, scale)
    IN  IF rev.kind = "error" THEN Raised
        ELSE MeanMapOfAndRevBa(im, m, rev.img, rev.mask)

(***************************************************************************)
(* calc_variational_inference_map: exit_code = os.system(...) is the last  *)
(* statement; nothing is returned or raised.                               *)
(***************************************************************************)
CalcVariationalInferenceMap(exit_code) == ReturnedNone

(***************************************************************************)
(* Inputs.                                                                 *)
(***************************************************************************)
FlowVals == (-MaxFlow) .. MaxFlow

Flows == FlowVals \X FlowVals

Dims == 2 .. MaxDim

\* Scales and factors a caller may pass, the non-positive ones included.
Scales == (-1) .. MaxScale

ExitCodes == 0 .. MaxExit

\* The flow an invalid pixel of an input holds.
JunkFlow == <<MaxFlow, -MaxFlow>>

\* A field whose valid pixels are V with flows fl, and its mask.
SparseField(h, w, V, fl) ==
    [h |-> h, w |-> w,
     v |-> [p \in Pixels(h, w) |->
              IF p \in V THEN <<Int2R(fl[p][1]), Int2R(fl[p][2])>>
              ELSE <<Int2R(JunkFlow[1]), Int2R(JunkFlow[2])>>]]

SparseMask(h, w, V) ==
    [h |-> h, w |-> w, v |-> [p \in Pixels(h, w) |-> IF p \in V THEN 1 ELSE -1]]

ValidSets(h, w, K) == {V \in SUBSET Pixels(h, w) : Cardinality(V) <= K}

\* Flows that vary with the pixel: f shifted by the pixel's coordinates.
Ramp(V, f) == [p \in V |-> <<f[1] + p[2], f[2] - p[1]>>]

Uniform(V, f) == [p \in V |-> f]

NotCalled ==
    /\ op = "none"
    /\ arg = 0
    /\ ret = NoCall

\* A backward field alone, any flows at its valid pixels.
InitInvert ==
    /\ \E h \in Dims, w \in Dims :
         /\ h * w <= 2 * MaxDim
         /\ \E V \in ValidSets(h, w, MaxValid) :
              \E fl \in [V -> Flows] :
                /\ img_ba = SparseField(h, w, V, fl)
                /\ mask_ba = SparseMask(h, w, V)
    /\ img = EmptyField
    /\ mask = EmptyGrid
    /\ NotCalled

\* A forward field alone.
InitResample ==
    /\ \E h \in Dims, w \in Dims :
         \E V \in SUBSET Pixels(h, w) :
           \E f \in Flows :
             /\ img = SparseField(h, w, V, Ramp(V, f))
             /\ mask = SparseMask(h, w, V)
    /\ img_ba = EmptyField
    /\ mask_ba = EmptyGrid
    /\ NotCalled

\* A forward and a backward field of 2 x 2 pixels.
InitConsensus ==
    /\ \E VA \in ValidSets(2, 2, MaxValid), VB \in ValidSets(2, 2, MaxValid - 1) :
         \E v \in FlowVals, u \in FlowVals :
           /\ img = SparseField(2, 2, VA, Ramp(VA, <<v, -v>>))
           /\ mask = SparseMask(2, 2, VA)
           /\ img_ba = SparseField(2, 2, VB, Uniform(VB, <<u, 0>>))
           /\ mask_ba = SparseMask(2, 2, VB)
    /\ NotCalled

\* The first k and the last k pixels of the scan.
Leading(h, w, k) == {RowMajor(h, w)[i] : i \in 1 .. k}

Trailing(h, w, k) == {RowMajor(h, w)[i] : i \in (h * w - k + 1) .. (h * w)}

\* A forward and a backward field of one shape, two rows high, from none to
\* all of their pixels valid.
InitMatched ==
    /\ \E w \in Dims :
         \E ka \in 0 .. (2 * w), kb \in 0 .. (2 * w) :
           \E u \in FlowVals :
             /\ img = SparseField(2, w, Leading(2, w, ka), Ramp(Leading(2, w, ka), <<0, 0>>))
             /\ mask = SparseMask(2, w, Leading(2, w, ka))
             /\ img_ba = SparseField(2, w, Trailing(2, w, kb),
                                     Uniform(Trailing(2, w, kb), <<u, 0>>))
             /\ mask_ba = SparseMask(2, w, Trailing(2, w, kb))
    /\ NotCalled

\* A backward field whose mask has one row more than the field.
InitMismatched ==
    /\ \E w \in Dims :
         \E ka \in 0 .. (2 * w), V \in ValidSets(2, w, 1) :
             /\ img = SparseField(2, w, Leading(2, w, ka), Ramp(Leading(2, w, ka), <<0, 0>>))
             /\ mask = SparseMask(2, w, Leading(2, w, ka))
             /\ img_ba = SparseField(2, w, V, Uniform(V, <<0, 0>>))
             /\ mask_ba = SparseMask(3, w, V)
    /\ NotCalled

Init == InitMatched \/ InitMismatched

(***************************************************************************)
(* The calls.                                                              *)
(***************************************************************************)
CallDownscaleAll ==
    \E downscale \in Scales :
        /\ op' = "downscale_all"
        /\ arg' = downscale
        /\ ret' = DownscaleAll(img, mask, downscale)
        /\ img' = DownscaleWrites(img, mask)
        /\ UNCHANGED <<mask, img_ba, mask_ba>>

CallInverseOfMap ==
    \E scale \in Scales :
        /\ op' = "inverse_of_map"
        /\ arg' = scale
        /\ ret' = InverseOfMap(img_ba, mask_ba, scale)
        /\ UNCHANGED <<img, mask, img_ba, mask_ba>>

CallMeanMapOfAndRevBa ==
    /\ op' = "mean_map_of_and_rev_ba"
    /\ arg' = 0
    /\ ret' = MeanMapOfAndRevBa(img, mask, img_ba, mask_ba)
    /\ UNCHANGED <<img, mask, img_ba, mask_ba>>

CallCreateMeanMapAbBa ==
    \E scale \in Scales :
        /\ op' = "create_mean_map_ab_ba"
        /\ arg' = scale
        /\ ret' = CreateMeanMapAbBa(img, mask, img_ba, mask_ba, scale)
        /\ UNCHANGED <<img, mask, img_ba, mask_ba>>

CallCalcVariationalInferenceMap ==
    \E exit_code \in ExitCodes :
        /\ op' = "calc_variational_inference_map"
        /\ arg' = exit_code
        /\ ret' = CalcVariationalInferenceMap(exit_code)
        /\ UNCHANGED <<img, mask, img_ba, mask_ba>>

Next ==
    \/ CallDownscaleAll
    \/ CallInverseOfMap
    \/ CallMeanMapOfAndRevBa
    \/ CallCreateMeanMapAbBa
    \/ CallCalcVariationalInferenceMap

Spec == Init /\ [][Next]_vars

NextConsensus == CallMeanMapOfAndRevBa \/ CallCreateMeanMapAbBa

SpecConsensus == InitConsensus /\ [][NextConsensus]_vars

SpecInvert == InitInvert /\ [][CallInverseOfMap]_vars

SpecResample == InitResample /\ [][CallDownscaleAll]_vars


(***************************************************************************)
(* Properties of inverse_of_map, checked under SpecInvert.                 *)
(***************************************************************************)
InvDone == op = "inverse_of_map" /\ ret.kind = "ok"

BaPixels == Pixels(img_ba.h, img_ba.w)

ValidSources == {p \in BaPixels : mask_ba.v[p] = 1}

\* The integer flow the input holds at p: <<dx, dy>>.
BaFlow(p) == <<img_ba.v[p][1][1], img_ba.v[p][2][1]>>

Interior(d) == 0 < d[1] /\ d[1] < img_ba.h /\ 0 < d[2] /\ d[2] < img_ba.w

\* The valid sources whose destination is d.
Contributors(d) == {p \in ValidSources : Destination(img_ba, arg, p) = d}

RECURSIVE SumFlow(_, _)
SumFlow(S, c) ==
    IF S = {} THEN 0
    ELSE LET p == CHOOSE q \in S : TRUE IN BaFlow(p)[c] + SumFlow(S \ {p}, c)

\* r = -(sum of channel c over S) / Cardinality(S)
IsNegMean(r, S, c) == r[2] > 0 /\ r[1] * Cardinality(S) = -SumFlow(S, c) * r[2]

Orders(S) ==
    {o \in [1 .. Cardinality(S) -> S] : \A i, j \in 1 .. Cardinality(S) : o[i] = o[j] => i = j}

\* C2: when two or more valid sources round to one accepted destination, the
\* flow stored there is the arithmetic mean of their negated flows, and the
\* scan gives the same field in whatever order the sources are visited.
C2_CollisionMean ==
    (InvDone /\ arg >= 1) =>
        /\ \A d \in BaPixels :
             (Interior(d) /\ Cardinality(Contributors(d)) >= 2) =>
                 /\ IsNegMean(ret.img.v[d][1], Contributors(d), 1)
                 /\ IsNegMean(ret.img.v[d][2], Contributors(d), 2)
        /\ \A o \in Orders(ValidSources) :
             InverseInOrder(img_ba, mask_ba, arg, o) = ret

\* Three sources with different flows met at one destination.
C2_Witness ==
    /\ InvDone
    /\ arg = MaxScale
    /\ \E d \in BaPixels :
         /\ Interior(d)
         /\ Cardinality(Contributors(d)) >= 3
         /\ \E p, q \in Contributors(d) : BaFlow(p) # BaFlow(q)
         /\ ret.img.v[d][1][2] = 3

\* C3: a contribution is written if and only if 0 < rev_x < width and
\* 0 < rev_y < height; the others are dropped without an error, so row 0 and
\* column 0 of the result are invalid and hold the flow (0, 0).
C3_BoundaryDrop ==
    /\ (op = "inverse_of_map" /\ arg >= 1) => ret.kind = "ok"
    /\ InvDone =>
         /\ \A d \in BaPixels :
              (ret.mask.v[d] = 1) <=> (Interior(d) /\ Contributors(d) # {})
         /\ \A d \in BaPixels :
              (d[1] = 0 \/ d[2] = 0) =>
                  (ret.mask.v[d] = -1 /\ ret.img.v[d] = <<Zero, Zero>>)

\* A valid source whose destination is on row 0, inside the columns, was
\* dropped while another source of the field was written.
C3_Witness ==
    /\ InvDone
    /\ arg >= 1
    /\ \E p \in ValidSources :
         LET d == Destination(img_ba, arg, p)
         IN  d[1] = 0 /\ 0 < d[2] /\ d[2] < img_ba.w /\ ret.mask.v[d] = -1
    /\ \E p \in ValidSources : Destination(img_ba, arg, p)[2] = 0
    /\ \E d \in BaPixels : ret.mask.v[d] = 1

\* floor((i * scale + f) / scale + 0.5) in integers, for scale >= 1.
HalfUp(i, scale, f) == (2 * (i * scale + f) + scale) \div (2 * scale)

\* The valid sources that round half up to d.
RoundTo(d) ==
    {p \in ValidSources : <<HalfUp(p[1], arg, BaFlow(p)[2]), HalfUp(p[2], arg, BaFlow(p)[1])>> = d}

\* C4: a valid source (y, x) with flow (dx, dy) goes to column
\* floor((x*scale+dx)/scale + 0.5) and row floor((y*scale+dy)/scale + 0.5); the
\* mask is +1 exactly at the accepted destinations, a pixel without a
\* contribution holds (0, 0), and a single accepted source gives one +1 pixel
\* holding its negated flow.
C4_Destination ==
    (InvDone /\ arg >= 1) =>
        /\ \A d \in BaPixels :
             /\ ret.mask.v[d] = (IF Interior(d) /\ RoundTo(d) # {} THEN 1 ELSE -1)
             /\ (~Interior(d) \/ RoundTo(d) = {}) => ret.img.v[d] = <<Zero, Zero>>
        /\ \A p \in ValidSources :
             LET d == <<HalfUp(p[1], arg, BaFlow(p)[2]), HalfUp(p[2], arg, BaFlow(p)[1])>>
             IN  (ValidSources = {p} /\ Interior(d)) =>
                     /\ {e \in BaPixels : ret.mask.v[e] = 1} = {d}
                     /\ ret.img.v[d] = <<Int2R(-BaFlow(p)[1]), Int2R(-BaFlow(p)[2])>>

\* A single valid source, half a pixel to the left of a column at the scale
\* of the call, was written one column to the right of where floor alone
\* would put it.
C4_Witness ==
    /\ InvDone
    /\ arg = 2
    /\ \E p \in ValidSources :
         /\ ValidSources = {p}
         /\ BaFlow(p)[1] = -1
         /\ ret.mask.v[<<HalfUp(p[1], arg, BaFlow(p)[2]), p[2]>>] = 1


(***************************************************************************)
(* Properties of downscale_all, checked under SpecResample.                *)
(***************************************************************************)
DownDone == op = "downscale_all" /\ ret.kind = "ok"

\* The valid pixels of the block of output pixel q.
ValidInBlock(q) ==
    {p \in Pixels(img.h, img.w) :
        /\ p[1] \div arg = q[1]
        /\ p[2] \div arg = q[2]
        /\ mask.v[p] = 1}

RECURSIVE SumImg(_, _)
SumImg(S, c) ==
    IF S = {} THEN 0
    ELSE LET p == CHOOSE q \in S : TRUE IN img.v[p][c][1] + SumImg(S \ {p}, c)

\* r = (sum of channel c over S) / Cardinality(S)
IsMean(r, S, c) == r[2] > 0 /\ r[1] * Cardinality(S) = SumImg(S, c) * r[2]

\* C6: downscale_all by f on an h x w field returns a floor(h/f) x floor(w/f)
\* field and mask; an output pixel holds the mean of the valid pixels of its
\* f x f block with mask +1, and (0, 0) with mask -1 when the block has none.
C6_BlockMean ==
    /\ (op = "downscale_all" /\ arg >= 1) => ret.kind = "ok"
    /\ DownDone =>
         /\ ret.img.h = img.h \div arg /\ ret.img.w = img.w \div arg
         /\ ret.mask.h = img.h \div arg /\ ret.mask.w = img.w \div arg
         /\ DOMAIN ret.img.v = Pixels(img.h \div arg, img.w \div arg)
         /\ DOMAIN ret.mask.v = Pixels(img.h \div arg, img.w \div arg)
         /\ \A q \in Pixels(img.h \div arg, img.w \div arg) :
              IF ValidInBlock(q) = {}
              THEN ret.mask.v[q] = -1 /\ ret.img.v[q] = <<Zero, Zero>>
              ELSE /\ ret.mask.v[q] = 1
                   /\ IsMean(ret.img.v[q][1], ValidInBlock(q), 1)
                   /\ IsMean(ret.img.v[q][2], ValidInBlock(q), 2)

\* A 3 x 3 field by 2 gave one pixel: the mean, not a whole number, of the
\* three valid pixels of a block with one invalid pixel.
C6_Witness ==
    /\ DownDone
    /\ arg = 2
    /\ img.h = 3 /\ img.w = 3
    /\ ret.img.h = 1 /\ ret.img.w = 1
    /\ Cardinality(ValidInBlock(<<0, 0>>)) = 3
    /\ ret.img.v[<<0, 0>>][1][2] = 3
    /\ mask.v[<<2, 2>>] = 1

(***************************************************************************)
(* Properties of mean_map_of_and_rev_ba, checked under SpecConsensus.      *)
(***************************************************************************)
MeanDone == op = "mean_map_of_and_rev_ba" /\ ret.kind = "ok"

\* r = (a + b) / 2 for integers a and b.
IsHalfSum(r, a, b) == r[2] > 0 /\ r[1] * 2 = (a[1] + b[1]) * r[2]

\* The field with other values at its invalid pixels.
Scrubbed(f, m) ==
    [f EXCEPT !.v = [p \in Pixels(f.h, f.w) |->
                       IF m.v[p] = 1 THEN f.v[p] ELSE <<Int2R(MaxFlow + 1), NaN>>]]

\* C5: at every pixel, two valid inputs give their average with mask +1, one
\* valid input gives its flow unchanged with mask +1, none gives (0, 0) with
\* mask -1; the flows stored at invalid pixels do not influence the result.
C5_Pointwise ==
    /\ op = "mean_map_of_and_rev_ba" => ret.kind = "ok"
    /\ MeanDone =>
         /\ SameShape(ret.img, img) /\ SameShape(ret.mask, img)
         /\ \A p \in Pixels(img.h, img.w) :
              LET a == mask.v[p] = 1
                  b == mask_ba.v[p] = 1
              IN  /\ (a /\ b) =>
                        /\ ret.mask.v[p] = 1
                        /\ IsHalfSum(ret.img.v[p][1], img.v[p][1], img_ba.v[p][1])
                        /\ IsHalfSum(ret.img.v[p][2], img.v[p][2], img_ba.v[p][2])
                  /\ (a /\ ~b) => (ret.mask.v[p] = 1 /\ ret.img.v[p] = img.v[p])
                  /\ (~a /\ b) => (ret.mask.v[p] = 1 /\ ret.img.v[p] = img_ba.v[p])
                  /\ (~a /\ ~b) => (ret.mask.v[p] = -1 /\ ret.img.v[p] = <<Zero, Zero>>)
         /\ MeanMapOfAndRevBa(Scrubbed(img, mask), mask,
                              Scrubbed(img_ba, mask_ba), mask_ba) = ret

\* One result with all four cases: a pixel valid in both inputs with
\* different flows, one valid in each input alone, one valid in neither and
\* holding a flow other than (0, 0) in the forward field.
C5_Witness ==
    /\ MeanDone
    /\ \E p, q, r, t \in Pixels(img.h, img.w) :
         /\ mask.v[p] = 1 /\ mask_ba.v[p] = 1 /\ img.v[p] # img_ba.v[p]
         /\ ret.img.v[p][1][2] = 2
         /\ mask.v[q] = 1 /\ mask_ba.v[q] = -1 /\ ret.img.v[q] # <<Zero, Zero>>
         /\ mask.v[r] = -1 /\ mask_ba.v[r] = 1 /\ ret.img.v[r] # <<Zero, Zero>>
         /\ mask.v[t] = -1 /\ mask_ba.v[t] = -1 /\ img.v[t] # <<Zero, Zero>>

(***************************************************************************)
(* Properties of all the calls, checked under Spec.                        *)
(***************************************************************************)
ArrayOps ==
    {"downscale_all", "inverse_of_map", "mean_map_of_and_rev_ba", "create_mean_map_ab_ba"}

AllInvalid(m) == \A p \in Pixels(m.h, m.w) : m.v[p] = -1

\* C1: every entry of a mask a call returns is exactly -1 or +1, and the mask
\* has the height and width of the flow field returned with it.
C1_MaskSentinel ==
    (op \in ArrayOps /\ ret.kind = "ok") =>
        /\ SameShape(ret.img, ret.mask)
        /\ DOMAIN ret.img.v = Pixels(ret.img.h, ret.img.w)
        /\ DOMAIN ret.mask.v = Pixels(ret.img.h, ret.img.w)
        /\ \A p \in Pixels(ret.mask.h, ret.mask.w) : ret.mask.v[p] \in {-1, 1}

\* create_mean_map_ab_ba returned a mask with both sentinels, one of its +1
\* entries owed to the inverted backward field alone.
C1_Witness ==
    /\ op = "create_mean_map_ab_ba"
    /\ ret.kind = "ok"
    /\ \E p, q \in Pixels(ret.mask.h, ret.mask.w) :
         ret.mask.v[p] = 1 /\ mask.v[p] = -1 /\ ret.mask.v[q] = -1

\* C7: a non-positive scale or factor, or a mask of another shape than its
\* field, makes the call raise and return nothing.
C7_PreconditionRaises ==
    /\ (op \in {"downscale_all", "inverse_of_map", "create_mean_map_ab_ba"} /\ arg <= 0)
           => ret.kind = "error"
    /\ (op = "downscale_all" /\ ~SameShape(img, mask)) => ret.kind = "error"
    /\ (op \in {"inverse_of_map", "mean_map_of_and_rev_ba", "create_mean_map_ab_ba"}
           /\ ~SameShape(img_ba, mask_ba)) => ret.kind = "error"

\* C8: a non-zero exit status of the external process reaches the caller as
\* a failure; only a zero exit is reported as success.
C8_ExitPropagated ==
    (op = "calc_variational_inference_map" /\ arg # 0) => ret.kind = "error"

\* C9: an entirely invalid input is no error: downscale_all, inverse_of_map
\* and mean_map_of_and_rev_ba return an entirely invalid mask and the flow
\* (0, 0) everywhere, and create_mean_map_ab_ba with an entirely invalid
\* backward field returns the forward mask and the forward field's valid
\* pixels.
C9_DegenerateInput ==
    /\ (op = "downscale_all" /\ arg >= 1 /\ AllInvalid(mask)) =>
           /\ ret.kind = "ok"
           /\ AllInvalid(ret.mask)
           /\ ret.img = ZerosField(img.h \div arg, img.w \div arg)
    /\ (op = "inverse_of_map" /\ arg >= 1 /\ SameShape(img_ba, mask_ba)
           /\ AllInvalid(mask_ba)) =>
           /\ ret.kind = "ok"
           /\ AllInvalid(ret.mask)
           /\ ret.img = ZerosField(img_ba.h, img_ba.w)
    /\ (op = "mean_map_of_and_rev_ba" /\ SameShape(img_ba, mask_ba)
           /\ AllInvalid(mask) /\ AllInvalid(mask_ba)) =>
           /\ ret.kind = "ok"
           /\ AllInvalid(ret.mask)
           /\ ret.img = ZerosField(img.h, img.w)
    /\ (op = "create_mean_map_ab_ba" /\ arg >= 1 /\ SameShape(img_ba, mask_ba)
           /\ AllInvalid(mask_ba)) =>
           /\ ret.kind = "ok"
           /\ ret.mask = mask
           /\ \A p \in Pixels(img.h, img.w) :
                ret.img.v[p] = (IF mask.v[p] = 1 THEN img.v[p] ELSE <<Zero, Zero>>)

\* create_mean_map_ab_ba was given an entirely invalid backward field and a
\* forward field with valid and invalid pixels.
C9_Witness ==
    /\ op = "create_mean_map_ab_ba"
    /\ arg >= 1
    /\ ret.kind = "ok"
    /\ SameShape(img_ba, mask_ba)
    /\ AllInvalid(mask_ba)
    /\ \E p, q \in Pixels(img.h, img.w) :
         mask.v[p] = 1 /\ ret.img.v[p] # <<Zero, Zero>> /\ mask.v[q] = -1

\* C10: no call changes the arrays its caller passed.
C10_InputsUnchanged ==
    [][img' = img /\ mask' = mask /\ img_ba' = img_ba /\ mask_ba' = mask_ba]_vars

\* The part of C10 that does hold: a call repeated on the arrays as the first
\* call left them returns what the first call returned.
RepeatedCallAgrees ==
    /\ op = "downscale_all" => ret = DownscaleAll(img, mask, arg)
    /\ op = "inverse_of_map" => ret = InverseOfMap(img_ba, mask_ba, arg)
    /\ op = "mean_map_of_and_rev_ba" => ret = MeanMapOfAndRevBa(img, mask, img_ba, mask_ba)
    /\ op = "create_mean_map_ab_ba" =>
           ret = CreateMeanMapAbBa(img, mask, img_ba, mask_ba, arg)

=============================================================================
